---- MODULE Spec2Model ----
(***************************************************************************)
(* Supply-chain risk orchestrator: the supplier filter, the three signal   *)
(* collectors, the country resolver, the scoring/alert aggregation loop    *)
(* of run_supply_chain_analysis and the news cache of get_risk_summary.    *)
(*                                                                         *)
(* Strings are sequences of tokens.  A token is a word (an opaque piece of *)
(* text without digits) or a number (a maximal run of digits), so that     *)
(* "x in s" is token membership and re.findall(r'\d+', s) is the list of   *)
(* number tokens.  Scores are floats in the program; here they are         *)
(* integers counting 1/Scale units.                                        *)
(***************************************************************************)
EXTENDS Integers, Sequences, FiniteSets, TLC

VARIABLES
    supplierFile,          \* data/suppliers.csv: [found, rows]
    products,              \* data/products.csv rows
    sales,                 \* data/sales_history.csv, per product, and the forecast it yields
    shipments,             \* data/shipments.csv rows
    dataFiles,             \* which of the collectors' csv files exist
    newsFeed,              \* what Newsdata.io and watsonx.ai answer for each (topic, country)
    cache,                 \* the Redis news cache: key -> stored text
    cache0,                \* history: the cache content before the first run
    pc,                    \* position of run_supply_chain_analysis
    run,                   \* number of the current call (1 or 2)
    at_risk_suppliers,     \* local of run_supply_chain_analysis
    idx,                   \* loop position in at_risk_suppliers
    demand_forecast_info,  \* local of the loop body
    logistics_alert_info,  \* local of the loop body
    risk_summary_data,     \* local of the loop body
    final_score,           \* local of the loop body
    priority_level,        \* local of the loop body
    alerts,                \* local of run_supply_chain_analysis
    calls,                 \* history: the collector/aggregation events of the current call
    results,               \* history: the outcome of each finished call
    newsLog,               \* history: the last direct call of get_risk_summary, if any
    written,               \* history: the (key, value) pairs successful calls stored
    alertsTable            \* the rows of the alerts table of the database

vars == <<supplierFile, products, sales, shipments, dataFiles, newsFeed, cache, cache0,
          pc, run, at_risk_suppliers, idx, demand_forecast_info, logistics_alert_info,
          risk_summary_data, final_score, priority_level, alerts, calls, results,
          newsLog, written, alertsTable>>

-----------------------------------------------------------------------------
(* Bounds of the model *)

MaxSuppliers == 2      \* rows of suppliers.csv in the orchestrator runs
MaxRows == 2           \* rows of suppliers.csv in the filter runs
MaxBaseScore == 16     \* largest base risk score (whole units) in the scoring runs

(* Scores count 1/Scale units: Scale = 2 gives the halves 0.0, 0.5, 1.0, ... *)
Scale == 2

-----------------------------------------------------------------------------
(* Text *)

W(s) == [w |-> s, n |-> -1]            \* a word
N(i) == [w |-> "#", n |-> i]           \* a run of digits
NL == W("\n")

IsNumber(t) == t.n >= 0

\* str(i) for an integer: a sign and the digits
NumText(i) == IF i < 0 THEN <<W("-"), N(-i)>> ELSE <<N(i)>>

\* f"{x}" for a score: the digits of the whole part, the point, the digits after it
ScoreText(s) == <<N(s \div Scale), W("."), N(((s % Scale) * 10) \div Scale)>>

\* Python's  word in text
Contains(text, word) == \E i \in DOMAIN text : text[i].w = word

\* re.findall(r'\d+', text)
FindNumbers(text) == SelectSeq(text, IsNumber)

\* str.upper(), word by word; digits and punctuation are unchanged
UpperWord(s) ==
    CASE s = "Acme" -> "ACME"
      [] s = "Globex" -> "GLOBEX"
      [] s = "Initech" -> "INITECH"
      [] s = "Highland" -> "HIGHLAND"
      [] s = "No high-risk suppliers found" -> "NO HIGH-RISK SUPPLIERS FOUND"
      [] s = "critical" -> "CRITICAL"
      [] OTHER -> s

Upper(text) == [i \in DOMAIN text |->
                  IF IsNumber(text[i]) THEN text[i] ELSE W(UpperWord(text[i].w))]

\* the text before the first newline
RECURSIVE FirstLine(_)
FirstLine(text) ==
    IF text = <<>> \/ Head(text) = NL THEN <<>>
    ELSE <<Head(text)>> \o FirstLine(Tail(text))

\* ', '.join(items)
RECURSIVE Join(_)
Join(items) ==
    IF items = <<>> THEN <<>>
    ELSE IF Len(items) = 1 THEN items[1]
    ELSE items[1] \o <<W(", ")>> \o Join(Tail(items))

\* round(num / den) for den > 0: Python rounds halves to the even neighbour
RoundHalfEven(num, den) ==
    LET q == num \div den
        r == num - q * den
    IN  IF 2 * r < den THEN q
        ELSE IF 2 * r > den THEN q + 1
        ELSE IF q % 2 = 0 THEN q ELSE q + 1

\* the outcome of a call: a returned value or a raised exception
Return(v) == [raised |-> FALSE, value |-> v]
Raise == [raised |-> TRUE, value |-> <<>>]

-----------------------------------------------------------------------------
(* supplier_agent.py *)

RISK_THRESHOLD == 7 * Scale

AtRiskCriteriaGT(row) ==
    row.production_status # "OK" \/ row.risk_score > RISK_THRESHOLD

\* at_risk_criteria = (status != 'OK') | (risk_score >= RISK_THRESHOLD)
AtRiskCriteria(row) ==
    row.production_status # "OK" \/ row.risk_score >= RISK_THRESHOLD

FailOnMissingFile(file) ==
    IF ~file.found THEN Raise ELSE Return(SelectSeq(file.rows, AtRiskCriteria))

\* find_at_risk_suppliers(): a missing file is caught and gives an empty frame
find_at_risk_suppliers(file) ==
    IF ~file.found THEN Return(<<>>)
    ELSE Return(SelectSeq(file.rows, AtRiskCriteria))

-----------------------------------------------------------------------------
(* demand_agent.py *)

MIN_HISTORY == 10
FORECAST_WEEKS == 4

\* the product rows of a supplier, in file order
ProductsOf(prods, id) == SelectSeq(prods, LAMBDA p : p.supplier_id = id)

\* the sales history of a product: number of records, last actual value 'y',
\* whether Prophet fits it, and int(forecast['yhat'].iloc[-1])
HistoryOf(hist, pid) ==
    LET rows == SelectSeq(hist, LAMBDA h : h.product_id = pid)
    IN  IF rows = <<>>
        THEN [product_id |-> pid, records |-> 0, last_y |-> 0, fit_ok |-> TRUE, yhat |-> 0]
        ELSE rows[1]

\* trend = "increase" if percentage_change >= 0 else "decrease"
Trend(percentage_change) == IF percentage_change >= 0 THEN "increase" ELSE "decrease"

ForecastStatement(product_name, predicted_sales, percentage_change) ==
    <<W("DEMAND FORECAST for '")>> \o product_name
      \o <<W("': Sales are projected to be ~")>> \o NumText(predicted_sales)
      \o <<W(" units/week in "), N(FORECAST_WEEKS), W(" weeks, a ")>>
      \o NumText(percentage_change)
      \o <<W("% "), W(Trend(percentage_change)), W(" from current levels.")>>

\* round(((predicted_sales - current_sales) / current_sales) * 100), current_sales > 0
PercentageChange(predicted_sales, current_sales) ==
    RoundHalfEven((predicted_sales - current_sales) * 100, current_sales)

\* get_demand_forecast(at_risk_supplier_id)
get_demand_forecast(prods, hist, files, id) ==
    IF ~(files.products /\ files.sales)
    THEN Return(<<W("Data file not found: [Errno "), N(2),
                  W("] No such file or directory")>>)
    ELSE LET product_info == ProductsOf(prods, id) IN
      IF product_info = <<>> THEN Return(<<>>)
      ELSE LET product_name == product_info[1].product_name
               h == HistoryOf(hist, product_info[1].product_id)
           IN
        IF h.records < MIN_HISTORY
        THEN Return(<<W("Insufficient sales history for ")>> \o product_name \o <<W(".")>>)
        ELSE IF ~h.fit_ok THEN Raise          \* model.fit / model.predict raises
        ELSE IF h.last_y = 0 THEN Raise       \* round() of inf or nan raises
        ELSE Return(ForecastStatement(product_name, h.yhat,
                                      PercentageChange(h.yhat, h.last_y)))

-----------------------------------------------------------------------------
(* logistics_agent.py *)

ActiveShipments(ships, id) ==
    SelectSeq(ships, LAMBDA s : s.supplier_id = id /\ s.status # "Delivered")

\* get_logistics_info(at_risk_supplier_id)
get_logistics_info(ships, files, id) ==
    IF ~files.shipments THEN Return(<<W("Shipment data file not found.")>>)
    ELSE LET active_shipments == ActiveShipments(ships, id) IN
      IF active_shipments # <<>>
      THEN LET shipment == active_shipments[1] IN
           Return(<<W("LOGISTICS ALERT: Shipment '")>> \o shipment.shipment_id
                  \o <<W("' is currently '"), W(shipment.status), W("' on a '"),
                       W(shipment.route_risk_level), W("' risk route.")>>)
      ELSE Return(<<>>)

-----------------------------------------------------------------------------
(* main_orchestrator.py: get_country_code *)

\* pycountry.countries.get(name=...): the alpha_2 code, "" when there is no such name
CountriesGet(country_name) ==
    CASE country_name = "India" -> "IN"
      [] country_name = "Germany" -> "DE"
      [] country_name = "United States" -> "US"
      [] OTHER -> ""

\* the exact lookup raises for a name that is no string (an empty country cell)
CountriesGetRaises(country_name) == country_name = "nan"

\* pycountry.countries.search_fuzzy(...): the candidates, or LookupError
SearchFuzzy(country_name) ==
    CASE country_name = "Russia" -> Return(<<"RU">>)
      [] country_name = "Korea" -> Return(<<"KR", "KP">>)
      [] OTHER -> Raise

\* str.lower() of an alpha_2 code
Lower(code) ==
    CASE code = "IN" -> "in"
      [] code = "DE" -> "de"
      [] code = "US" -> "us"
      [] code = "RU" -> "ru"
      [] code = "KR" -> "kr"
      [] code = "KP" -> "kp"
      [] OTHER -> code

ExactMatchOrDefault(country_name) ==
    IF CountriesGetRaises(country_name) THEN "us"
    ELSE IF CountriesGet(country_name) # "" THEN Lower(CountriesGet(country_name))
    ELSE "us"

get_country_code(country_name) ==
    IF CountriesGetRaises(country_name) THEN "us"
    ELSE IF CountriesGet(country_name) # "" THEN Lower(CountriesGet(country_name))
    ELSE LET country == SearchFuzzy(country_name) IN
         IF ~country.raised /\ country.value # <<>> THEN Lower(country.value[1])
         ELSE "us"

-----------------------------------------------------------------------------
(* JSON values and texts *)

NoEntities == [joinable |-> TRUE, items |-> <<>>]

\* a JSON object with the given keys; a field whose key is absent holds a default
Dict(keys, err, cat, sum, ents) ==
    [type |-> "dict", keys |-> keys, error |-> err, risk_category |-> cat,
     summary |-> sum, key_entities |-> ents]

\* a JSON value that is no object: an array, a string, a number, null
NonDict == [type |-> "nondict", keys |-> {}, error |-> <<>>, risk_category |-> "",
            summary |-> <<>>, key_entities |-> NoEntities]

ErrorDict(text) == Dict({"error"}, text, "", <<>>, NoEntities)

JsonDumpsWithoutCategory(value) ==
    [kind |-> IF value.type = "dict" THEN "object" ELSE "other",
     doc |-> [value EXCEPT !.keys = @ \ {"risk_category"}]]

\* json.dumps(value): the text of a value
JsonDumps(value) ==
    [kind |-> IF value.type = "dict" THEN "object" ELSE "other", doc |-> value]

\* json.loads(text): raises on an empty or malformed text
JsonLoads(text) ==
    IF text.kind \in {"object", "other"} THEN Return(text.doc) ELSE Raise

MalformedText == [kind |-> "malformed", doc |-> NonDict]
EmptyText == [kind |-> "empty", doc |-> NonDict]

-----------------------------------------------------------------------------
(* risk_agent.py *)

CACHE_TTL == 3600

TopicDelay == "shipping delay OR port congestion"
TopicDisruption == "supply chain disruption OR factory shutdown"

\* cache_key = f"news_risk:{risk_topic}:{country_code}"
CacheKeyFixedCountry(risk_topic, country_code) == <<risk_topic, "us">>

\* line 38: f"news_risk:{risk_topic}:{country_code}"
CacheKey(risk_topic, country_code) == <<risk_topic, country_code>>

NoEntry == [present |-> FALSE, text |-> EmptyText]
Entry(text) == [present |-> TRUE, text |-> text]

\* what one call of get_risk_summary gives: the outcome, the cache afterwards,
\* and whether the news API and the model were called
RiskResult(out, c, api, model) ==
    [raised |-> out.raised, value |-> out.value, cache |-> c,
     api_called |-> api, model_called |-> model]

\* lines 52-130: the cache missed (or was bypassed)
FetchAndSummarize(key, c, redisUp, feed) ==
    LET answer == feed[key] IN
    IF answer.api = "error"
    THEN RiskResult(Return(ErrorDict(<<W("API Error: "), W("Unknown API Error")>>)),
                    c, TRUE, FALSE)
    ELSE IF answer.api = "empty"
    THEN RiskResult(Return(ErrorDict(<<W("No news found for the given criteria.")>>)),
                    c, TRUE, FALSE)
    ELSE IF answer.api = "exception"
    THEN RiskResult(Return(ErrorDict(<<W("An API exception occurred: "), W("timeout")>>)),
                    c, TRUE, FALSE)
    ELSE IF answer.llm = "quota"
    THEN RiskResult(Return(ErrorDict(<<W("Watsonx.ai token quota has been reached.")>>)),
                    c, TRUE, TRUE)
    ELSE IF answer.llm = "exception"
    THEN RiskResult(Return(ErrorDict(<<W("Error connecting to watsonx.ai: "),
                                       W("unauthorized")>>)), c, TRUE, TRUE)
    ELSE IF answer.llm = "no_block"
    THEN RiskResult(Return(ErrorDict(<<W("AI did not return a valid <response> block.")>>)),
                    c, TRUE, TRUE)
    ELSE LET parsed == JsonLoads(answer.json) IN
         IF parsed.raised
         THEN RiskResult(Return(ErrorDict(<<W("Failed to parse JSON from AI response: "),
                                            W("Expecting value")>>)), c, TRUE, TRUE)
         ELSE RiskResult(Return(parsed.value),
                         IF redisUp
                         THEN [c EXCEPT ![key] = Entry(JsonDumps(parsed.value))]
                         ELSE c,
                         TRUE, TRUE)

\* get_risk_summary(risk_topic, country_code, user_api_key, user_project_id);
\* redisUp is whether Redis answers during this call
get_risk_summary(risk_topic, country_code, c, redisUp, feed) ==
    LET cache_key == CacheKey(risk_topic, country_code)
        cached_result == c[cache_key]
        hit == redisUp /\ cached_result.present /\ cached_result.text.kind # "empty"
        loaded == JsonLoads(cached_result.text)
    IN  IF hit /\ ~loaded.raised
        THEN RiskResult(Return(loaded.value), c, FALSE, FALSE)
        ELSE FetchAndSummarize(cache_key, c, redisUp, feed)

-----------------------------------------------------------------------------
(* main_orchestrator.py: the reasoning engine, lines 74-128 *)

NewsIsError(news) == "error" \in news.keys

\* risk_summary_data.get("risk_category", "Other")
RiskCategory(news) ==
    IF NewsIsError(news) THEN "Error"
    ELSE IF "risk_category" \in news.keys THEN news.risk_category ELSE "Other"

NewsBonusFinancialHigh(news) ==
    IF NewsIsError(news) THEN 0
    ELSE IF RiskCategory(news) \in {"Logistics", "Natural Disaster", "Geopolitical",
                                    "Financial"}
    THEN 5 * Scale
    ELSE 0

NewsBonusDespiteError(news) ==
    IF "risk_category" \in news.keys
         /\ news.risk_category \in {"Logistics", "Natural Disaster", "Geopolitical"}
    THEN 5 * Scale
    ELSE IF "risk_category" \in news.keys /\ news.risk_category = "Financial"
    THEN 2 * Scale
    ELSE 0

\* lines 75-85
NewsBonus(news) ==
    IF NewsIsError(news) THEN 0
    ELSE IF RiskCategory(news) \in {"Logistics", "Natural Disaster", "Geopolitical"}
    THEN 5 * Scale
    ELSE IF RiskCategory(news) = "Financial" THEN 2 * Scale
    ELSE 0

\* lines 93-101: the first run of digits of the description is taken as the percentage
DemandBonus(demand_info) ==
    IF demand_info # <<>> /\ Contains(demand_info, "increase")
    THEN LET numbers == FindNumbers(demand_info) IN
         IF numbers # <<>>
         THEN LET percent_increase == numbers[1].n IN
              IF percent_increase > 25 THEN 5 * Scale
              ELSE IF percent_increase > 10 THEN 2 * Scale
              ELSE 0
         ELSE 0
    ELSE 0

LogisticsBonusInverted(logistics_info) ==
    IF logistics_info # <<>> /\ ~Contains(logistics_info, "Delayed") THEN 3 * Scale ELSE 0

\* lines 105-106
LogisticsBonus(logistics_info) ==
    IF logistics_info # <<>> /\ Contains(logistics_info, "Delayed") THEN 3 * Scale ELSE 0

FinalScore(base, news, demand_info, logistics_info) ==
    base + NewsBonus(news) + DemandBonus(demand_info) + LogisticsBonus(logistics_info)

PriorityLevelInclusive(score) ==
    IF score >= 15 * Scale THEN "CRITICAL"
    ELSE IF score >= 10 * Scale THEN "HIGH"
    ELSE IF score >= 5 * Scale THEN "MEDIUM"
    ELSE "LOW"

\* lines 109-116
PriorityLevel(score) ==
    IF score > 15 * Scale THEN "CRITICAL"
    ELSE IF score > 10 * Scale THEN "HIGH"
    ELSE IF score > 5 * Scale THEN "MEDIUM"
    ELSE "LOW"

PriorityEmoji(level) ==
    CASE level = "CRITICAL" -> "(red) "
      [] level = "HIGH" -> "(orange) "
      [] level = "MEDIUM" -> "(yellow) "
      [] OTHER -> "(green) "

NameAsWritten(supplier_name) == supplier_name

\* supplier_name.upper()
NameInAlert(supplier_name) == Upper(supplier_name)

\* lines 120-128
AlertString(supplier, level, demand_info, logistics_info, news) ==
    <<W(PriorityEmoji(level)), W(level), W(" ALERT FOR: ")>>
      \o NameInAlert(supplier.supplier_name) \o <<NL>>
      \o <<W("   - Supplier Status: "), W(supplier.production_status),
           W(" (Internal Risk Score: ")>> \o ScoreText(supplier.risk_score)
      \o <<W(")"), NL>>
      \o (IF demand_info # <<>> THEN <<W("   - ")>> \o demand_info \o <<NL>> ELSE <<>>)
      \o (IF logistics_info # <<>> THEN <<W("   - ")>> \o logistics_info \o <<NL>>
          ELSE <<>>)
      \o <<W("   - External Risk Category: "), W(RiskCategory(news)), NL>>
      \o <<W("   - Key Entities: ")>>
      \o Join(IF NewsIsError(news) \/ "key_entities" \notin news.keys THEN <<>>
              ELSE news.key_entities.items)
      \o <<NL, W("   - News Summary: ")>>
      \o (IF NewsIsError(news) THEN news.error
          ELSE IF "summary" \in news.keys THEN news.summary ELSE <<W("N/A")>>)
      \o <<NL>>

\* the reasoning engine raises when the news result is no dict ('.get' of a list,
\* 'in' of None) and when key_entities cannot be joined
AggregateRaises(news) ==
    \/ news.type # "dict"
    \/ /\ ~NewsIsError(news)
       /\ "key_entities" \in news.keys
       /\ ~news.key_entities.joinable

Aggregate(supplier, demand_info, logistics_info, news) ==
    IF AggregateRaises(news) THEN Raise
    ELSE LET score == FinalScore(supplier.risk_score, news, demand_info, logistics_info)
             level == PriorityLevel(score)
         IN  Return(<<[final_score |-> score, priority_level |-> level,
                       alert |-> AlertString(supplier, level, demand_info,
                                             logistics_info, news)]>>)

SentinelMessage == <<W("(check) Analysis Complete: "), W("No high-risk suppliers found"),
                     W(".")>>

-----------------------------------------------------------------------------
(* main_orchestrator.py: run_supply_chain_analysis as a step machine *)

Topics == {TopicDelay, TopicDisruption}
CountryCodes == {"in", "us", "kr", "de", "ru"}
CacheKeys == Topics \X CountryCodes

\* lines 65-68
TopicFor(status) == IF status = "DELAYED" THEN TopicDelay ELSE TopicDisruption

Supplier == at_risk_suppliers[idx]

Event(op) == [op |-> op, i |-> idx, id |-> Supplier.supplier_id]

\* the news collector's call: the country code it was given and what it called
NewsEvent(country_code, got) ==
    [op |-> "news", i |-> idx, id |-> Supplier.supplier_id,
     country_code |-> country_code, hit |-> ~got.api_called,
     api_called |-> got.api_called, model_called |-> got.model_called]

PrependAlert(list, alert) == <<alert>> \o list

\* alerts.append(alert_string)
AppendAlert(list, alert) == Append(list, alert)

ResetLocals ==
    /\ demand_forecast_info' = <<>>
    /\ logistics_alert_info' = <<>>
    /\ risk_summary_data' = NonDict
    /\ final_score' = 0
    /\ priority_level' = "LOW"

Upstream == <<supplierFile, products, sales, shipments, dataFiles, newsFeed, cache0>>
Stores == <<newsLog, written, alertsTable>>
Locals == <<demand_forecast_info, logistics_alert_info, risk_summary_data,
            final_score, priority_level>>

\* the call ends with an exception propagating to the caller
Propagate ==
    /\ pc' = "raised"
    /\ results' = Append(results, Raise)

\* lines 37-46: fetch the at-risk suppliers; an empty frame ends the run
StartRun ==
    /\ pc = "idle"
    /\ LET found == find_at_risk_suppliers(supplierFile) IN
       IF found.raised
       THEN /\ Propagate
            /\ UNCHANGED <<at_risk_suppliers, idx, alerts>>
       ELSE IF found.value = <<>>
       THEN /\ pc' = "returned"
            /\ results' = Append(results, Return(<<SentinelMessage>>))
            /\ UNCHANGED <<at_risk_suppliers, idx, alerts>>
       ELSE /\ at_risk_suppliers' = found.value
            /\ idx' = 1
            /\ alerts' = <<>>
            /\ pc' = "demand"
            /\ UNCHANGED results
    /\ UNCHANGED <<Upstream, Stores, cache, run, Locals, calls>>

\* line 59
DemandStep ==
    /\ pc = "demand"
    /\ calls' = Append(calls, Event("demand"))
    /\ LET got == get_demand_forecast(products, sales, dataFiles, Supplier.supplier_id) IN
       IF got.raised
       THEN /\ Propagate
            /\ UNCHANGED demand_forecast_info
       ELSE /\ demand_forecast_info' = got.value
            /\ pc' = "logistics"
            /\ UNCHANGED results
    /\ UNCHANGED <<Upstream, Stores, cache, run, at_risk_suppliers, idx, logistics_alert_info,
                   risk_summary_data, final_score, priority_level, alerts>>

\* line 62
LogisticsStep ==
    /\ pc = "logistics"
    /\ calls' = Append(calls, Event("logistics"))
    /\ LET got == get_logistics_info(shipments, dataFiles, Supplier.supplier_id) IN
       IF got.raised
       THEN /\ Propagate
            /\ UNCHANGED logistics_alert_info
       ELSE /\ logistics_alert_info' = got.value
            /\ pc' = "news"
            /\ UNCHANGED results
    /\ UNCHANGED <<Upstream, Stores, cache, run, at_risk_suppliers, idx, demand_forecast_info,
                   risk_summary_data, final_score, priority_level, alerts>>

\* lines 56, 65-70
NewsStep ==
    /\ pc = "news"
    /\ \E redisUp \in BOOLEAN :
         LET country_code == get_country_code(Supplier.country)
             got == get_risk_summary(TopicFor(Supplier.production_status),
                                     country_code, cache, redisUp, newsFeed)
         IN  /\ risk_summary_data' = got.value
             /\ cache' = got.cache
             /\ calls' = Append(calls, NewsEvent(country_code, got))
    /\ pc' = "aggregate"
    /\ UNCHANGED <<Upstream, Stores, run, at_risk_suppliers, idx, demand_forecast_info,
                   logistics_alert_info, final_score, priority_level, alerts, results>>

\* lines 74-131: score, priority and alert of the current supplier
AggregateStep ==
    /\ pc = "aggregate"
    /\ calls' = Append(calls, Event("alert"))
    /\ LET got == Aggregate(Supplier, demand_forecast_info, logistics_alert_info,
                            risk_summary_data)
       IN  IF got.raised
           THEN /\ Propagate
                /\ UNCHANGED <<final_score, priority_level, alerts, idx>>
           ELSE /\ final_score' = got.value[1].final_score
                /\ priority_level' = got.value[1].priority_level
                /\ alerts' = AppendAlert(alerts, got.value[1].alert)
                /\ idx' = idx + 1
                /\ pc' = IF idx < Len(at_risk_suppliers) THEN "demand" ELSE "return"
                /\ UNCHANGED results
    /\ UNCHANGED <<Upstream, Stores, cache, run, at_risk_suppliers, demand_forecast_info,
                   logistics_alert_info, risk_summary_data>>

\* lines 133-138
ReturnStep ==
    /\ pc = "return"
    /\ pc' = "returned"
    /\ results' = Append(results,
                         Return(IF alerts = <<>> THEN <<SentinelMessage>> ELSE alerts))
    /\ UNCHANGED <<Upstream, Stores, cache, run, at_risk_suppliers, idx, Locals, alerts, calls>>

\* the caller calls run_supply_chain_analysis again; its locals start afresh
NextCall ==
    /\ pc \in {"returned", "raised"}
    /\ run = 1
    /\ run' = 2
    /\ pc' = "idle"
    /\ at_risk_suppliers' = <<>>
    /\ idx' = 0
    /\ alerts' = <<>>
    /\ calls' = <<>>
    /\ ResetLocals
    /\ UNCHANGED <<Upstream, Stores, cache, results>>

\* Redis drops an entry whose time to live (CACHE_TTL seconds) has passed
Expire ==
    /\ \E k \in CacheKeys :
         /\ cache[k].present
         /\ cache' = [cache EXCEPT ![k] = NoEntry]
    /\ UNCHANGED <<Upstream, Stores, pc, run, at_risk_suppliers, idx, Locals, alerts, calls,
                   results>>

Next ==
    \/ StartRun
    \/ DemandStep
    \/ LogisticsStep
    \/ NewsStep
    \/ AggregateStep
    \/ ReturnStep
    \/ NextCall
    \/ Expire

-----------------------------------------------------------------------------
(* server.py: run_scheduled_analysis saves the alerts of a run *)

\* the words of the model that hold another piece of text inside them
WordHas(word, part) ==
    \/ word = part
    \/ <<word, part>> \in {<<"HIGHLAND", "HIGH">>,
                           <<"NO HIGH-RISK SUPPLIERS FOUND", "HIGH">>,
                           <<" ALERT FOR: ", "FOR: ">>}

\* part in text, for a text of several words
HasSubstring(text, part) == \E i \in DOMAIN text : WordHas(text[i].w, part)

\* str.strip(): without the blanks at both ends
RECURSIVE Strip(_)
Strip(text) ==
    IF text = <<>> THEN <<>>
    ELSE IF Head(text) = W(" ") THEN Strip(Tail(text))
    ELSE IF text[Len(text)] = W(" ") THEN Strip(SubSeq(text, 1, Len(text) - 1))
    ELSE text

\* lines 59-63
ExtractPriority(alert_text) ==
    IF HasSubstring(alert_text, "CRITICAL") THEN "CRITICAL"
    ELSE IF HasSubstring(alert_text, "HIGH") THEN "HIGH"
    ELSE IF HasSubstring(alert_text, "MEDIUM") THEN "MEDIUM"
    ELSE IF HasSubstring(alert_text, "LOW") THEN "LOW"
    ELSE "UNKNOWN"

\* lines 65-67: from behind the first "FOR: " to the next line end
ExtractSupplierName(alert_text) ==
    LET marks == {i \in DOMAIN alert_text : WordHas(alert_text[i].w, "FOR: ")}
        supplier_name_start == (CHOOSE i \in marks : \A k \in marks : i <= k) + 1
        ends == {i \in supplier_name_start..Len(alert_text) : alert_text[i] = NL}
        supplier_name_end == CHOOSE i \in ends : \A k \in ends : i <= k
    IN  Strip(SubSeq(alert_text, supplier_name_start, supplier_name_end - 1))

\* lines 69-78: the row inserted for one alert (the timestamp is left out)
AlertRow(alert_text) ==
    [supplier_name |-> ExtractSupplierName(alert_text),
     priority |-> ExtractPriority(alert_text),
     alert_text |-> alert_text]

\* lines 45-82 of run_scheduled_analysis, after run_supply_chain_analysis returned:
\* nothing is saved for the sentinel; the inserts are one transaction
SaveAlerts ==
    /\ pc = "returned"
    /\ pc' = "saved"
    /\ LET returned == results[Len(results)].value IN
       IF returned = <<>> \/ HasSubstring(returned[1], "No high-risk suppliers found")
       THEN alertsTable' = alertsTable
       ELSE \E dbOk \in BOOLEAN :
              alertsTable' =
                IF dbOk
                THEN alertsTable \o [j \in 1..Len(returned) |-> AlertRow(returned[j])]
                ELSE alertsTable
    /\ UNCHANGED <<Upstream, newsLog, written, cache, run, at_risk_suppliers, idx,
                   Locals, alerts, calls, results>>

\* one call, no expiry
NextOneCall ==
    \/ StartRun
    \/ DemandStep
    \/ LogisticsStep
    \/ NewsStep
    \/ AggregateStep
    \/ ReturnStep

InitControl ==
    /\ pc = "idle"
    /\ run = 1
    /\ at_risk_suppliers = <<>>
    /\ idx = 0
    /\ alerts = <<>>
    /\ calls = <<>>
    /\ results = <<>>
    /\ demand_forecast_info = <<>>
    /\ logistics_alert_info = <<>>
    /\ risk_summary_data = NonDict
    /\ final_score = 0
    /\ priority_level = "LOW"
    /\ newsLog = <<>>
    /\ written = {}
    /\ alertsTable = <<>>

-----------------------------------------------------------------------------
(* Upstream data the runs start from *)

SeqsUpTo(S, n) == UNION {[1..k -> S] : k \in 0..n}

AllFiles == [products |-> TRUE, sales |-> TRUE, shipments |-> TRUE]

FeedApi(kind) == [api |-> kind, llm |-> "json", json |-> EmptyText]
FeedLlm(kind) == [api |-> "articles", llm |-> kind, json |-> EmptyText]
FeedJson(text) == [api |-> "articles", llm |-> "json", json |-> text]

\* the JSON text the model wrote inside its <response> block for a value
ResponseText(value) ==
    [kind |-> IF value.type = "dict" THEN "object" ELSE "other", doc |-> value]

NoNews == [k \in CacheKeys |-> FeedApi("empty")]
EmptyCache == [k \in CacheKeys |-> NoEntry]

Row(id, name, country, status, score) ==
    [supplier_id |-> id, supplier_name |-> name, country |-> country,
     production_status |-> status, risk_score |-> score]

Product(pid, name, sid) == [product_id |-> pid, product_name |-> name, supplier_id |-> sid]

History(pid, records, last_y, fit_ok, yhat) ==
    [product_id |-> pid, records |-> records, last_y |-> last_y, fit_ok |-> fit_ok,
     yhat |-> yhat]

Shipment(sid, supplier, status, level) ==
    [shipment_id |-> sid, supplier_id |-> supplier, status |-> status,
     route_risk_level |-> level]

Entities(items) == [joinable |-> TRUE, items |-> items]
NotJoinable == [joinable |-> FALSE, items |-> <<>>]

NewsDict(cat, sum, ents) ==
    Dict({"risk_category", "summary", "key_entities"}, <<>>, cat, sum, ents)

PortStrike == NewsDict("Logistics", <<W("Port strike halts exports.")>>,
                       Entities(<<<<W("Mundra Port")>>, <<W("Maersk")>>>>))
BankRun == Dict({"risk_category"}, <<>>, "Financial", <<>>, NoEntities)
OldBorderNews == NewsDict("Geopolitical", <<W("Border closure last month.")>>,
                          Entities(<<<<W("Customs")>>>>))

\* the supplier rows the orchestrator runs draw suppliers.csv from
SupplierCatalogue ==
    { Row(1001, <<W("Acme")>>, "India", "DELAYED", 8 * Scale),
      Row(1002, <<W("No high-risk suppliers found")>>, "Atlantis", "OK", 7 * Scale),
      Row(1003, <<W("Globex")>>, "India", "OK", 3 * Scale),
      Row(1004, <<W("Initech")>>, "Korea", "HALTED", 4 * Scale + 1) }

CatalogueProducts ==
    << Product(1, <<W("Alpha Smartwatch")>>, 1001),
       Product(2, <<W("Widget "), N(3000)>>, 1004),
       Product(3, <<W("Beta Band")>>, 1001) >>

CatalogueShipments ==
    << Shipment(<<W("SHP"), N(7)>>, 1001, "Delivered", "Low"),
       Shipment(<<W("SHP"), N(8)>>, 1001, "Delayed", "High"),
       Shipment(<<W("SHP"), N(9)>>, 1002, "In Transit", "Medium") >>

\* two states of the sales history and of the news: in the first every collector
\* answers, in the second the forecast and the news answers are the bad ones
Worlds ==
    { [sales |-> << History(1, 12, 100, TRUE, 130), History(2, 9, 40, TRUE, 0) >>,
       news |-> [k \in CacheKeys |->
                   CASE k = <<TopicDelay, "in">> -> FeedJson(ResponseText(PortStrike))
                     [] k = <<TopicDisruption, "us">> -> FeedApi("error")
                     [] k = <<TopicDisruption, "kr">> -> FeedJson(ResponseText(BankRun))
                     [] OTHER -> FeedApi("empty")]],
      [sales |-> << History(1, 12, 0, TRUE, 130), History(2, 12, 40, FALSE, 0) >>,
       news |-> [k \in CacheKeys |->
                   CASE k = <<TopicDelay, "in">> -> FeedJson(ResponseText(PortStrike))
                     [] k = <<TopicDisruption, "us">> -> FeedJson(ResponseText(NonDict))
                     [] k = <<TopicDisruption, "kr">> ->
                          FeedJson(ResponseText(NewsDict("Other", <<W("Quiet week.")>>,
                                                      NotJoinable)))
                     [] OTHER -> FeedApi("empty")]] }

\* what the current upstream news gives for a key when it can be cached
FreshText(feed, k) ==
    IF feed[k].api = "articles" /\ feed[k].llm = "json" /\ ~JsonLoads(feed[k].json).raised
    THEN {JsonDumps(JsonLoads(feed[k].json).value)}
    ELSE {}

\* texts a cache entry may hold before the first run: a result of earlier news,
\* a text that is no JSON, a JSON text that is no object, or the current result
CachedTexts(feed, k) ==
    {JsonDumps(OldBorderNews), MalformedText, JsonDumps(NonDict)} \cup FreshText(feed, k)

InitialCaches(feed) ==
    {EmptyCache} \cup
    { [EmptyCache EXCEPT ![k] = Entry(t)] : <<k, t>> \in
        UNION { {k2} \X CachedTexts(feed, k2) : k2 \in CacheKeys } }

Init ==
    /\ supplierFile \in
         {[found |-> FALSE, rows |-> <<>>]} \cup
         {[found |-> TRUE, rows |-> r] : r \in SeqsUpTo(SupplierCatalogue, MaxSuppliers)}
    /\ products = CatalogueProducts
    /\ shipments = CatalogueShipments
    /\ dataFiles = AllFiles
    /\ \E w \in Worlds :
         /\ sales = w.sales
         /\ newsFeed = w.news
    /\ cache \in InitialCaches(newsFeed)
    /\ cache0 = cache
    /\ InitControl

Spec == Init /\ [][Next]_vars

-----------------------------------------------------------------------------
(* The filter alone, over every combination of status and score *)

FilterRows ==
    { Row(id, <<W("Acme")>>, "India", st, sc) :
        id \in {1, 2}, st \in {"OK", "DELAYED", "HALTED"},
        sc \in {0, RISK_THRESHOLD - 1, RISK_THRESHOLD, RISK_THRESHOLD + 1} }

InitFilter ==
    /\ supplierFile \in
         {[found |-> FALSE, rows |-> <<>>]} \cup
         {[found |-> TRUE, rows |-> r] : r \in SeqsUpTo(FilterRows, MaxRows)}
    /\ products = <<>>
    /\ sales = <<>>
    /\ shipments = <<>>
    /\ dataFiles = AllFiles
    /\ newsFeed = NoNews
    /\ cache = EmptyCache
    /\ cache0 = cache
    /\ InitControl

SpecFilter == InitFilter /\ [][StartRun]_vars

-----------------------------------------------------------------------------
(* At-risk suppliers over the country names the resolver distinguishes *)

CountryNames == {"India", "Germany", "United States", "Russia", "Korea", "Atlantis", "nan"}

CountryRows ==
    { Row(id, <<W("Acme")>>, name, "DELAYED", 8 * Scale) :
        id \in {1}, name \in CountryNames }

InitCountry ==
    /\ supplierFile \in
         {[found |-> TRUE, rows |-> r] : r \in SeqsUpTo(CountryRows, MaxSuppliers)}
    /\ products = <<>>
    /\ sales = <<>>
    /\ shipments = <<>>
    /\ dataFiles = AllFiles
    /\ newsFeed = NoNews
    /\ cache = EmptyCache
    /\ cache0 = cache
    /\ InitControl

SpecCountry == InitCountry /\ [][NextOneCall]_vars

-----------------------------------------------------------------------------
(* risk_agent.py: get_risk_summary called again and again on one cache *)

NewsKeys == {<<TopicDelay, "in">>, <<TopicDelay, "us">>}

ModelRefusal == Dict({"error"}, <<W("model refused")>>, "", <<>>, NoEntities)

NewsAnswers ==
    { FeedApi("error"), FeedApi("empty"), FeedApi("exception"),
      FeedLlm("quota"), FeedLlm("exception"), FeedLlm("no_block"),
      FeedJson(MalformedText),
      FeedJson(ResponseText(PortStrike)), FeedJson(ResponseText(ModelRefusal)) }

\* lines 90-96, 127-130: the model is built with the caller's credentials and
\* fails to connect when they are not valid
WithCredentials(answer, credsOk) ==
    IF credsOk \/ answer.api # "articles" THEN answer ELSE FeedLlm("exception")

\* the news API returned articles and the model's <response> block parsed as JSON
FetchSucceeds(answer) ==
    answer.api = "articles" /\ answer.llm = "json" /\ ~JsonLoads(answer.json).raised

\* one call get_risk_summary(risk_topic, country_code, user_api_key, user_project_id)
GetRiskSummary ==
    /\ \E key \in NewsKeys, reply \in NewsAnswers, redisUp \in BOOLEAN,
          credsOk \in BOOLEAN :
         LET answer == WithCredentials(reply, credsOk)
             got == get_risk_summary(key[1], key[2], cache, redisUp,
                                     [NoNews EXCEPT ![key] = answer])
             stored == got.api_called /\ FetchSucceeds(answer) /\ redisUp
         IN  /\ cache' = got.cache
             /\ written' = written \cup
                              (IF stored THEN {<<key, JsonLoads(answer.json).value>>}
                               ELSE {})
             /\ newsLog' = <<[key |-> key, answer |-> answer, credsOk |-> credsOk,
                              redisUp |-> redisUp, before |-> cache,
                              after |-> got.cache,
                              known |-> <<key, got.value>> \in written,
                              raised |-> got.raised, value |-> got.value,
                              api_called |-> got.api_called,
                              model_called |-> got.model_called]>>
    /\ UNCHANGED <<Upstream, alertsTable, pc, run, at_risk_suppliers, idx, Locals,
                   alerts, calls, results>>

InitNews ==
    /\ supplierFile = [found |-> TRUE, rows |-> <<>>]
    /\ products = <<>>
    /\ sales = <<>>
    /\ shipments = <<>>
    /\ dataFiles = AllFiles
    /\ newsFeed = NoNews
    /\ cache = EmptyCache
    /\ cache0 = cache
    /\ InitControl

NextNews ==
    \/ GetRiskSummary
    \/ Expire

SpecNews == InitNews /\ [][NextNews]_vars

-----------------------------------------------------------------------------
(* Scheduled runs: suppliers whose names and news carry tier words *)

Highland == <<W("Highland")>>
AcmeBlank == <<W("Acme"), W(" ")>>

ServerRows ==
    { Row(1, name, "India", "OK", score * Scale) :
        name \in {<<W("Acme")>>, Highland, AcmeBlank}, score \in {3, 7, 11, 16} }

ShortageNews == NewsDict("Other", <<W("CRITICAL"), W(" shortage of containers.")>>,
                         NoEntities)

InitServer ==
    /\ supplierFile \in
         {[found |-> TRUE, rows |-> r] : r \in SeqsUpTo(ServerRows, MaxSuppliers)}
    /\ products = <<>>
    /\ sales = <<>>
    /\ shipments = <<>>
    /\ dataFiles = AllFiles
    /\ newsFeed \in {NoNews,
                     [NoNews EXCEPT ![CacheKey(TopicDisruption, "in")] =
                                       FeedJson(ResponseText(ShortageNews))]}
    /\ cache = EmptyCache
    /\ cache0 = cache
    /\ InitControl

NextScheduled ==
    \/ StartRun
    \/ DemandStep
    \/ LogisticsStep
    \/ NewsStep
    \/ AggregateStep
    \/ ReturnStep
    \/ SaveAlerts

SpecServer == InitServer /\ [][NextScheduled]_vars

-----------------------------------------------------------------------------
(* One supplier, over the base scores and the outcomes of the three collectors *)

ScoredSupplier(score) == Row(1, <<W("Acme")>>, "India", "DELAYED", score)
ScoredKey == CacheKey(TopicDelay, "in")

AlphaSmartwatch == <<W("Alpha Smartwatch")>>
Widget3000 == <<W("Widget "), N(3000)>>
YieldKit == <<W("Yield "), W("increase"), W(" kit "), N(30)>>

DemandCase(files, prods, hist) == [files |-> files, products |-> prods, sales |-> hist]

Forecast(name, last_y, yhat) ==
    DemandCase(AllFiles, <<Product(1, name, 1)>>, <<History(1, 12, last_y, TRUE, yhat)>>)

ScoreDemandCases ==
    { DemandCase(AllFiles, <<>>, <<>>),
      DemandCase([AllFiles EXCEPT !.sales = FALSE], <<>>, <<>>),
      DemandCase(AllFiles, <<Product(1, Widget3000, 1)>>, <<History(1, 9, 50, TRUE, 60)>>),
      DemandCase(AllFiles, <<Product(1, YieldKit, 1)>>, <<History(1, 9, 50, TRUE, 60)>>),
      Forecast(AlphaSmartwatch, 8, 9),
      Forecast(AlphaSmartwatch, 8, 11),
      Forecast(AlphaSmartwatch, 100, 130),
      Forecast(AlphaSmartwatch, 100, 90),
      Forecast(Widget3000, 100, 104) }

ScoreShipmentCases ==
    { [found |-> TRUE, rows |-> <<>>],
      [found |-> FALSE, rows |-> <<>>],
      [found |-> TRUE, rows |-> <<Shipment(<<W("SHP"), N(7)>>, 1, "In Transit", "Low")>>],
      [found |-> TRUE, rows |-> <<Shipment(<<W("SHP"), N(7)>>, 1, "Delivered", "Low"),
                                  Shipment(<<W("SHP"), N(8)>>, 1, "Delayed", "High")>>],
      [found |-> TRUE, rows |-> <<Shipment(<<W("RE-"), W("Delayed"), W("-"), N(7)>>, 1,
                                           "In Transit", "Low")>>],
      [found |-> TRUE, rows |-> <<Shipment(<<W("SHP"), N(9)>>, 1, "In Transit",
                                           "Delayed")>>] }

Categories == {"Logistics", "Financial", "Geopolitical", "Cybersecurity",
               "Natural Disaster", "Other"}

ScoreNewsCases ==
    { FeedApi("error"), FeedApi("empty"), FeedApi("exception"),
      FeedLlm("quota"), FeedLlm("exception"), FeedLlm("no_block"),
      FeedJson(MalformedText), FeedJson(ResponseText(NonDict)),
      FeedJson(ResponseText(Dict({"summary"}, <<>>, "", <<W("Nothing to report.")>>,
                              NoEntities))),
      FeedJson(ResponseText(Dict({"error", "risk_category"}, <<W("model refused")>>,
                              "Logistics", <<>>, NoEntities))),
      FeedJson(ResponseText(NewsDict("Other", <<W("Quiet week.")>>, NotJoinable))) }
    \cup
    { FeedJson(ResponseText(NewsDict(cat, <<W("Port strike halts exports.")>>,
                                  Entities(<<<<W("Mundra Port")>>, <<W("Maersk")>>>>)))) :
        cat \in Categories \cup {"Weather"} }

InitScore ==
    /\ \E score \in 0..(MaxBaseScore * Scale) :
         supplierFile = [found |-> TRUE, rows |-> <<ScoredSupplier(score)>>]
    /\ \E d \in ScoreDemandCases, sh \in ScoreShipmentCases :
         /\ products = d.products
         /\ sales = d.sales
         /\ shipments = sh.rows
         /\ dataFiles = [d.files EXCEPT !.shipments = sh.found]
    /\ \E answer \in ScoreNewsCases :
         newsFeed = [NoNews EXCEPT ![ScoredKey] = answer]
    /\ cache = EmptyCache
    /\ cache0 = cache
    /\ InitControl

SpecScore == InitScore /\ [][NextOneCall]_vars

-----------------------------------------------------------------------------
(* Properties *)

SentinelPhrase == "No high-risk suppliers found"

Finished == pc \in {"returned", "raised"}

\* the outcome of the call that has just finished
Outcome == results[Len(results)]

\* a row that the filter's contract excludes
NormalAndLow(row) == row.production_status = "OK" /\ row.risk_score < 7 * Scale

\* the rows of suppliers.csv that the contract includes, by position
IncludedPositions ==
    {i \in DOMAIN supplierFile.rows : ~NormalAndLow(supplierFile.rows[i])}

\* the frame find_at_risk_suppliers returned, as the orchestrator saw it
ReturnedFrame == IF pc = "returned" /\ calls = <<>> THEN <<>> ELSE at_risk_suppliers

IsSubsequence(r, src) ==
    \E f \in [DOMAIN r -> DOMAIN src] :
       /\ \A i \in DOMAIN r : r[i] = src[f[i]]
       /\ \A i, j \in DOMAIN r : i < j => f[i] < f[j]

C2_SentinelOnlyWhenEmpty ==
    /\ IncludedPositions = {} /\ pc # "idle" =>
         /\ pc = "returned"
         /\ calls = <<>>
         /\ ~Outcome.raised
         /\ Len(Outcome.value) = 1
         /\ Contains(Outcome.value[1], SentinelPhrase)
    /\ IncludedPositions # {} /\ pc = "returned" =>
         \A i \in DOMAIN Outcome.value :
            ~Contains(FirstLine(Outcome.value[i]), SentinelPhrase)

C2_Witness ==
    /\ pc = "returned"
    /\ Len(Outcome.value) = 2
    /\ \E i \in DOMAIN at_risk_suppliers :
          at_risk_suppliers[i].supplier_name = <<W(SentinelPhrase)>>

\* C3 as claimed: when suppliers.csv cannot be found the call fails with an error
\* and returns no result sequence.
C3_MissingFileRaises ==
    ~supplierFile.found /\ Finished => pc = "raised" /\ Outcome.raised

\* C3 as the code has it: when suppliers.csv cannot be found the call raises
\* nothing, calls no collector and returns the one-element sentinel sequence.
C3_MissingFileGivesSentinel ==
    ~supplierFile.found /\ pc # "idle" =>
      /\ pc = "returned"
      /\ calls = <<>>
      /\ Outcome = Return(<<SentinelMessage>>)

C3_Witness == ~supplierFile.found /\ pc = "returned" /\ Len(results) = 1

\* C4 as claimed: once the at-risk list has been obtained the call never raises,
\* whatever the collectors of a supplier do.
C4_NeverRaisesAfterFilter == at_risk_suppliers # <<>> => pc # "raised"

CollectorOrder == <<"demand", "logistics", "news", "alert">>

\* C5: a returned sequence for a non-empty at-risk set has one alert per at-risk
\* supplier, the i-th alert being that of the i-th supplier of the filter's output;
\* the events of a call are, supplier by supplier, demand, logistics, news and then
\* the scoring, each once, before any event of the next supplier.
C5_OneAlertPerSupplierInOrder ==
    /\ \A j \in DOMAIN calls :
          /\ calls[j].op = CollectorOrder[((j - 1) % 4) + 1]
          /\ calls[j].i = ((j - 1) \div 4) + 1
          /\ calls[j].i \in DOMAIN at_risk_suppliers
          /\ calls[j].id = at_risk_suppliers[calls[j].i].supplier_id
    /\ pc = "returned" /\ IncludedPositions # {} =>
          /\ Len(calls) = 4 * Len(at_risk_suppliers)
          /\ Len(Outcome.value) = Cardinality(IncludedPositions)
          /\ Len(Outcome.value) = Len(at_risk_suppliers)
          /\ \A i \in DOMAIN Outcome.value :
                LET line == FirstLine(Outcome.value[i]) IN
                /\ Len(line) > 3
                /\ SubSeq(line, 4, Len(line)) = Upper(at_risk_suppliers[i].supplier_name)

C5_Witness ==
    /\ pc = "returned"
    /\ Len(Outcome.value) = 2
    /\ Len(at_risk_suppliers) = 2
    /\ at_risk_suppliers[1].supplier_id # at_risk_suppliers[2].supplier_id
    /\ Len(calls) = 8

\* every entry the cache held before the first call is the text of what the
\* current news and model answers give for its key
CacheFresh ==
    \A k \in CacheKeys : cache0[k].present => cache0[k].text \in FreshText(newsFeed, k)

\* C6 as claimed: two calls in a row over unchanged upstream data give identical
\* alert sequences, whatever the cache held before and whatever expires between.
C6_TwoCallsAgree ==
    Len(results) = 2 /\ ~results[1].raised /\ ~results[2].raised =>
      results[1].value = results[2].value

\* C6 as the code has it: two calls in a row over unchanged upstream data end the
\* same way (identical sequences, or both fail), whatever expires and whenever
\* Redis is unreachable, provided every entry the cache held before the first call
\* is the result of the current news and model answers for its key.
C6_TwoCallsAgreeOnFreshCache ==
    Len(results) = 2 /\ CacheFresh => results[1] = results[2]

C6_Witness ==
    /\ Len(results) = 2
    /\ CacheFresh
    /\ \E k \in CacheKeys : cache0[k].present /\ ~cache[k].present
    /\ ~results[2].raised
    /\ at_risk_suppliers # <<>>
    /\ \E i \in DOMAIN at_risk_suppliers :
          /\ at_risk_suppliers[i].production_status = "DELAYED"
          /\ cache0[<<TopicDelay, get_country_code(at_risk_suppliers[i].country)>>].present


\* the supplier whose score and alert were computed last
Scored == at_risk_suppliers[Len(alerts)]

\* the tier printed on the first line of the last alert
PrintedTier == FirstLine(alerts[Len(alerts)])[2].w

Rank(level) ==
    CASE level = "CRITICAL" -> 3
      [] level = "HIGH" -> 2
      [] level = "MEDIUM" -> 1
      [] OTHER -> 0

\* C7: the tier of an alert is decided by the final score alone, with strict
\* thresholds taken in descending order: above 15 CRITICAL, else above 10 HIGH, else
\* above 5 MEDIUM, else LOW; a higher score never gives a lower tier.
C7_TierByStrictThresholds ==
    alerts # <<>> =>
      /\ PrintedTier = priority_level
      /\ final_score > 15 * Scale => PrintedTier = "CRITICAL"
      /\ final_score <= 15 * Scale /\ final_score > 10 * Scale => PrintedTier = "HIGH"
      /\ final_score <= 10 * Scale /\ final_score > 5 * Scale => PrintedTier = "MEDIUM"
      /\ final_score <= 5 * Scale => PrintedTier = "LOW"
      /\ \A lower \in 0..final_score : Rank(PriorityLevel(lower)) <= Rank(PrintedTier)

C7_Witness ==
    /\ alerts # <<>>
    /\ final_score = 15 * Scale
    /\ Scored.risk_score = 10 * Scale
    /\ priority_level = "HIGH"

\* the signals a supplier could have had instead
OtherNews ==
    {ErrorDict(<<W("No news found for the given criteria.")>>)} \cup
    {NewsDict(cat, <<>>, NoEntities) : cat \in Categories}
OtherDemand ==
    {get_demand_forecast(c.products, c.sales, c.files, 1).value : c \in ScoreDemandCases}
OtherLogistics ==
    {get_logistics_info(sh.rows, [AllFiles EXCEPT !.shipments = sh.found], 1).value :
       sh \in ScoreShipmentCases}

NewsQualifies(news) ==
    /\ "error" \notin news.keys
    /\ "risk_category" \in news.keys
    /\ news.risk_category \in {"Logistics", "Natural Disaster", "Geopolitical", "Financial"}
DemandQualifies(text) ==
    /\ Contains(text, "increase")
    /\ FindNumbers(text) # <<>>
    /\ FindNumbers(text)[1].n > 10
LogisticsQualifies(text) == Contains(text, "Delayed")

NotLower(score) ==
    /\ score >= final_score
    /\ Rank(PriorityLevel(score)) >= Rank(priority_level)

\* C8: the final score is the base score plus a news bonus in {0,2,5}, a demand
\* bonus in {0,2,5} and a logistics bonus in {0,3}, each decided by its own signal,
\* so it lies between base and base + 13; turning one signal from non-qualifying to
\* qualifying with the other two fixed lowers neither the score nor the tier.
C8_ScoreIsBasePlusBonuses ==
    alerts # <<>> =>
      LET base == Scored.risk_score
          news == risk_summary_data
          demand == demand_forecast_info
          logistics == logistics_alert_info
      IN  /\ \E n \in {0, 2, 5}, d \in {0, 2, 5}, l \in {0, 3} :
                /\ final_score = base + (n + d + l) * Scale
                /\ (n > 0) => NewsQualifies(news)
                /\ (d > 0) => DemandQualifies(demand)
                /\ (l > 0) <=> LogisticsQualifies(logistics)
          /\ final_score >= base
          /\ final_score <= base + 13 * Scale
          /\ \A other \in OtherNews :
                ~NewsQualifies(news) /\ NewsQualifies(other) =>
                   NotLower(FinalScore(base, other, demand, logistics))
          /\ \A other \in OtherDemand :
                ~DemandQualifies(demand) /\ DemandQualifies(other) =>
                   NotLower(FinalScore(base, news, other, logistics))
          /\ \A other \in OtherLogistics :
                ~LogisticsQualifies(logistics) /\ LogisticsQualifies(other) =>
                   NotLower(FinalScore(base, news, demand, other))

C8_Witness ==
    /\ alerts # <<>>
    /\ final_score = Scored.risk_score + 13 * Scale
    /\ priority_level = "CRITICAL"
    /\ Scored.risk_score = 3 * Scale

\* C9: for a news result that is no error the news bonus is 5 for Logistics,
\* Natural Disaster and Geopolitical, 2 for Financial, and 0 for Cybersecurity,
\* Other, any other value and a missing category.
C9_NewsBonusByCategory ==
    alerts # <<>> /\ "error" \notin risk_summary_data.keys =>
      LET bonus == final_score - Scored.risk_score - DemandBonus(demand_forecast_info)
                     - LogisticsBonus(logistics_alert_info)
          present == "risk_category" \in risk_summary_data.keys
          category == risk_summary_data.risk_category
      IN  /\ present /\ category \in {"Logistics", "Natural Disaster", "Geopolitical"}
                => bonus = 5 * Scale
          /\ present /\ category = "Financial" => bonus = 2 * Scale
          /\ ~present \/ category \notin {"Logistics", "Natural Disaster", "Geopolitical",
                                          "Financial"}
                => bonus = 0

C9_Witness ==
    /\ alerts # <<>>
    /\ "error" \notin risk_summary_data.keys
    /\ risk_summary_data.risk_category = "Financial"
    /\ final_score = Scored.risk_score + 2 * Scale

\* the forecast the demand collector reported for the scored supplier, if it did
ReportedForecast ==
    LET mine == ProductsOf(products, Scored.supplier_id) IN
    IF dataFiles.products /\ dataFiles.sales /\ mine # <<>>
    THEN LET h == HistoryOf(sales, mine[1].product_id) IN
         IF h.records >= 10 /\ h.fit_ok /\ h.last_y > 0
         THEN <<PercentageChange(h.yhat, h.last_y)>>
         ELSE <<>>
    ELSE <<>>

\* C10 as claimed: when the demand collector reports a change of p percent, the
\* demand bonus is 5 for an increase with p > 25, 2 for an increase with
\* 10 < p <= 25 and 0 for an increase with p <= 10 or a decrease, whatever the
\* product name and the predicted units/week are.
C10_DemandBonusByPercent ==
    alerts # <<>> /\ ReportedForecast # <<>> =>
      LET p == ReportedForecast[1]
          bonus == final_score - Scored.risk_score - NewsBonus(risk_summary_data)
                     - LogisticsBonus(logistics_alert_info)
      IN  bonus = IF p > 25 THEN 5 * Scale ELSE IF p > 10 THEN 2 * Scale ELSE 0

\* the active shipment the logistics collector reported for the scored supplier
ReportedShipment ==
    IF dataFiles.shipments THEN ActiveShipments(shipments, Scored.supplier_id) ELSE <<>>

\* C11 as claimed: the logistics bonus is 3 exactly when the logistics collector
\* reports an active shipment whose status is Delayed, and 0 when the reported
\* shipment has another status or there is no active shipment, whatever the shipment
\* identifier and the route risk level in the description are.
C11_LogisticsBonusByStatus ==
    alerts # <<>> =>
      LET bonus == final_score - Scored.risk_score - NewsBonus(risk_summary_data)
                     - DemandBonus(demand_forecast_info)
      IN  bonus = IF ReportedShipment # <<>> /\ ReportedShipment[1].status = "Delayed"
                  THEN 3 * Scale ELSE 0

\* the lines of a text, each without its line end
RECURSIVE Lines(_)
Lines(text) ==
    IF text = <<>> THEN <<>>
    ELSE LET first == FirstLine(text) IN
         <<first>> \o Lines(SubSeq(text, Len(first) + 2, Len(text)))

LastAlert == alerts[Len(alerts)]

\* a line of the alert that carries a demand / a logistics description
IsDemandLine(line) ==
    /\ Len(line) >= 2
    /\ line[1] = W("   - ")
    /\ line[2].w \in {"DEMAND FORECAST for '", "Insufficient sales history for ",
                      "Data file not found: [Errno "}
IsLogisticsLine(line) ==
    /\ Len(line) >= 2
    /\ line[1] = W("   - ")
    /\ line[2].w \in {"LOGISTICS ALERT: Shipment '", "Shipment data file not found."}

HasLine(text, Test(_)) == \E i \in 1..Len(Lines(text)) : Test(Lines(text)[i])

NoLinkedProduct ==
    dataFiles.products /\ dataFiles.sales
      /\ ProductsOf(products, Scored.supplier_id) = <<>>
InsufficientHistory ==
    LET mine == ProductsOf(products, Scored.supplier_id) IN
    dataFiles.products /\ dataFiles.sales /\ mine # <<>>
      /\ HistoryOf(sales, mine[1].product_id).records < MIN_HISTORY
NoActiveShipment ==
    dataFiles.shipments /\ ActiveShipments(shipments, Scored.supplier_id) = <<>>

\* C12 as claimed: with no linked product or with fewer than 10 sales records the
\* demand signal is absent: it adds 0 to the score and the alert has no demand line;
\* with no active shipment the logistics signal adds 0 and the alert has no
\* logistics line.
C12_AbsentSignalsLeaveNoTrace ==
    alerts # <<>> =>
      LET extra == final_score - Scored.risk_score - NewsBonus(risk_summary_data) IN
      /\ NoLinkedProduct \/ InsufficientHistory =>
           /\ extra - LogisticsBonus(logistics_alert_info) = 0
           /\ ~HasLine(LastAlert, IsDemandLine)
      /\ NoActiveShipment =>
           /\ extra - DemandBonus(demand_forecast_info) = 0
           /\ ~HasLine(LastAlert, IsLogisticsLine)

\* the part of C12 the code keeps: no linked product and no active shipment
C12_EmptySignalsLeaveNoTrace ==
    alerts # <<>> =>
      LET extra == final_score - Scored.risk_score - NewsBonus(risk_summary_data) IN
      /\ NoLinkedProduct =>
           /\ extra - LogisticsBonus(logistics_alert_info) = 0
           /\ ~HasLine(LastAlert, IsDemandLine)
      /\ NoActiveShipment =>
           /\ extra - DemandBonus(demand_forecast_info) = 0
           /\ ~HasLine(LastAlert, IsLogisticsLine)

\* the code the claim gives each country name of the reference table
ClaimedCode(country_name) ==
    CASE country_name = "India" -> "in"            \* exact match IN
      [] country_name = "Germany" -> "de"          \* exact match DE
      [] country_name = "United States" -> "us"    \* exact match US
      [] country_name = "Russia" -> "ru"           \* fuzzy candidates RU
      [] country_name = "Korea" -> "kr"            \* fuzzy candidates KR, KP
      [] country_name = "Atlantis" -> "us"         \* the fuzzy search raises
      [] country_name = "nan" -> "us"              \* the exact lookup raises

NewsCalls == {j \in 1..Len(calls) : calls[j].op = "news"}

\* C13: get_country_code never raises: it gives the lowercase code of the exact
\* match, else that of the first fuzzy candidate, else "us" (also when a lookup
\* raises), and the same name always gives the same code.
C13_CountryCodeTotal ==
    /\ pc # "raised"
    /\ \A j \in NewsCalls :
         calls[j].country_code = ClaimedCode(at_risk_suppliers[calls[j].i].country)
    /\ \A j, k \in NewsCalls :
         at_risk_suppliers[calls[j].i].country = at_risk_suppliers[calls[k].i].country
           => calls[j].country_code = calls[k].country_code

C13_Witness ==
    /\ pc = "returned"
    /\ Len(alerts) = 2
    /\ at_risk_suppliers[1].country = "Korea"
    /\ at_risk_suppliers[2].country = "nan"
    /\ \E j, k \in NewsCalls : calls[j].country_code = "kr" /\ calls[k].country_code = "us"

\* C14: when the news signal reports an error the supplier's alert is still
\* produced, with the error text as its News Summary, "Error" as its External Risk
\* Category and an empty Key Entities list, and the final score is the base score
\* plus the demand and logistics bonuses only.
C14_NewsErrorStillAlerts ==
    NewsIsError(risk_summary_data) /\ pc # "aggregate" =>
      /\ pc # "raised"
      /\ alerts # <<>>
      /\ LET lines == Lines(LastAlert)
             n == Len(lines)
         IN  /\ n >= 5
             /\ lines[n - 2] = <<W("   - External Risk Category: "), W("Error")>>
             /\ lines[n - 1] = <<W("   - Key Entities: ")>>
             /\ lines[n] = <<W("   - News Summary: ")>> \o risk_summary_data.error
      /\ final_score = Scored.risk_score + DemandBonus(demand_forecast_info)
                         + LogisticsBonus(logistics_alert_info)

C14_Witness ==
    /\ pc = "returned"
    /\ Len(alerts) = 1
    /\ risk_summary_data.keys = {"error", "risk_category"}
    /\ risk_summary_data.risk_category = "Logistics"
    /\ final_score = Scored.risk_score + 8 * Scale

\* the category an alert shows on its External Risk Category line
ShownCategory(alert) ==
    LET lines == Lines(alert) IN lines[Len(lines) - 2][2].w

\* C15 as claimed: the External Risk Category shown in every alert is one of the
\* six recognized categories or Error; a result without an error whose
\* risk_category is absent or unrecognized is shown as "Other".
C15_CategoryIsRecognized ==
    \A j \in 1..Len(alerts) : ShownCategory(alerts[j]) \in Categories \cup {"Error"}

\* C16: over any sequence of calls of get_risk_summary the cache is written only
\* with a successfully parsed model result, under the key (topic, country code) of
\* that call; no error outcome is ever written; a value returned from a cache hit
\* was stored by an earlier successful call for that key and is returned without
\* calling the news API or the model, whatever credentials the caller supplies.
C16_CacheHoldsOnlyParsedResults ==
    /\ \A k \in CacheKeys :
         cache[k].present =>
           /\ ~JsonLoads(cache[k].text).raised
           /\ <<k, JsonLoads(cache[k].text).value>> \in written
    /\ newsLog # <<>> =>
         LET c == newsLog[1]
             hit == ~c.api_called
         IN  /\ ~c.raised
             /\ c.after # c.before =>
                  /\ c.api_called /\ c.model_called
                  /\ FetchSucceeds(c.answer)
                  /\ c.value = JsonLoads(c.answer.json).value
                  /\ c.after = [c.before EXCEPT ![c.key] = Entry(JsonDumps(c.value))]
             /\ ~FetchSucceeds(c.answer) => c.after = c.before
             /\ hit =>
                  /\ ~c.model_called
                  /\ c.after = c.before
                  /\ c.known
                  /\ c.value = JsonLoads(c.before[c.key].text).value
             /\ c.redisUp /\ c.before[c.key].present => hit

C16_Witness ==
    /\ newsLog # <<>>
    /\ ~newsLog[1].api_called
    /\ ~newsLog[1].credsOk
    /\ newsLog[1].answer = FeedLlm("exception")
    /\ newsLog[1].value = PortStrike
    /\ \E k \in CacheKeys : k # newsLog[1].key /\ cache[k].present

\* C17 as claimed: every row run_scheduled_analysis saves carries as its priority
\* the tier on the first line of its alert and as its supplier name the uppercased
\* name of the alert's supplier, whatever the names, descriptions and summaries
\* are; when the run returns the sentinel no row is saved.
C17_SavedRowsMatchAlerts ==
    pc = "saved" =>
      /\ alerts = <<>> => alertsTable = <<>>
      /\ \A j \in 1..Len(alertsTable) :
           /\ alertsTable[j].alert_text = alerts[j]
           /\ alertsTable[j].priority = FirstLine(alerts[j])[2].w
           /\ alertsTable[j].supplier_name = Upper(at_risk_suppliers[j].supplier_name)

\* the parts of C17 the code keeps: the sentinel saves nothing and each saved row
\* holds its alert's text
C17_SentinelSavesNothing ==
    pc = "saved" =>
      /\ alerts = <<>> => alertsTable = <<>>
      /\ Len(alertsTable) \in {0, Len(alerts)}
      /\ \A j \in 1..Len(alertsTable) : alertsTable[j].alert_text = alerts[j]

====
